---------------------------- MODULE Spec2Model ----------------------------
(***************************************************************************)
(* A model of sheets_manager.Sheets (src/sheets_manager/sheets_manager.py): *)
(* the two static converters to_dict / to_list, and the client with its    *)
(* configuration, its buffered table `data` and the operations read_data,  *)
(* write_data, as_dict, as_list and _set_data_range.                       *)
(*                                                                         *)
(* Python values are tagged pairs: <<"str", s>>, <<"int", n>> and          *)
(* <<"none", "">> for None.  A list is a sequence.  A dict is the sequence *)
(* of its <<key, value>> items in insertion order, keys unique.            *)
(***************************************************************************)
EXTENDS Integers, Sequences, FiniteSets, TLC

\* Bounds of the model.
MaxRows == 2
MaxCols == 2

---------------------------------------------------------------------------
\* Python values

None == <<"none", "">>
StrV(s) == <<"str", s>>
IntV(n) == <<"int", n>>

\* bool(v) of a scalar: None, "" and 0 are falsy.
Truthy(v) ==
    CASE v[1] = "none" -> FALSE
      [] v[1] = "str" -> v[2] # ""
      [] v[1] = "int" -> v[2] # 0
      [] OTHER -> TRUE

\* bool(l) of a list l: an empty list is falsy.
TruthyList(l) == Len(l) > 0

\* An optional list argument: <<"none", <<>>>> is None, <<"list", l>> is l.
NoList == <<"none", <<>>>>
List(l) == <<"list", l>>
TruthyArg(a) == a[1] = "list" /\ TruthyList(a[2])

\* The outcome of a call: the value returned, or the exception raised.
Ok(v) == [exc |-> "", val |-> v]
Raise(e) == [exc |-> e, val |-> <<>>]

Min(a, b) == IF a < b THEN a ELSE b

\* Tuples over S of length 0..n.
SeqUpTo(S, n) == UNION {[1..k -> S] : k \in 0..n}

---------------------------------------------------------------------------
\* dicts

\* d[k] = v: an existing key keeps its place, a new key goes last.
DictSet(d, k, v) ==
    IF \E i \in 1..Len(d) : d[i][1] = k
    THEN [i \in 1..Len(d) |-> IF d[i][1] = k THEN <<k, v>> ELSE d[i]]
    ELSE Append(d, <<k, v>>)

\* list(d.keys()) and list(d.values())
DictKeys(d) == [i \in 1..Len(d) |-> d[i][1]]
DictValues(d) == [i \in 1..Len(d) |-> d[i][2]]

\* { header: value if value else None for header, value in zip(headers, row) }
RECURSIVE ZipRow(_, _, _)
ZipRow(headers, row, n) ==
    IF n = 0 THEN <<>>
    ELSE DictSet(ZipRow(headers, row, n - 1), headers[n],
                 IF Truthy(row[n]) THEN row[n] ELSE None)

RowToDict(headers, row) == ZipRow(headers, row, Min(Len(headers), Len(row)))

\* The subsequence of s at the indices in keep, in order.
RECURSIVE Filter(_, _, _)
Filter(s, keep, n) ==
    IF n = 0 THEN <<>>
    ELSE IF n \in keep THEN Append(Filter(s, keep, n - 1), s[n])
    ELSE Filter(s, keep, n - 1)

\* Sheets.to_dict(data).  same is the set of indices whose row is the very
\* object data[0] (`row is headers`); index 1 is always one of them.
ToDict(data, same) ==
    IF Len(data) = 0 THEN Raise("IndexError")
    ELSE Ok(Filter([i \in 1..Len(data) |-> RowToDict(data[1], data[i])],
                   (1..Len(data)) \ same, Len(data)))

\* [list(row.values()) for row in data]
ValueRows(data) == [i \in 1..Len(data) |-> DictValues(data[i])]

\* A to_list that tests the header flag the wrong way round.
ToList_HeaderInverted(data, header) ==
    IF ~header
    THEN IF Len(data) = 0 THEN Raise("IndexError")
         ELSE Ok(<<DictKeys(data[1])>> \o ValueRows(data))
    ELSE Ok(ValueRows(data))

\* Sheets.to_list(data, header)
ToList(data, header) ==
    IF header
    THEN IF Len(data) = 0 THEN Raise("IndexError")
         ELSE Ok(<<DictKeys(data[1])>> \o ValueRows(data))
    ELSE Ok(ValueRows(data))

---------------------------------------------------------------------------
\* Inputs of the converters

\* Field names, in the order a header lists them.
FieldNames == <<StrV("Name"), StrV("Age"), StrV("Role")>>

\* The cell values a column can hold: one falsy and one truthy value each.
ColumnCells(c) ==
    IF c % 2 = 1 THEN {StrV(""), StrV("Fred")} ELSE {IntV(0), IntV(31)}

Headers == {SubSeq(FieldNames, 1, k) : k \in 0..Min(MaxCols, Len(FieldNames))}

Rows == {r \in SeqUpTo(ColumnCells(1) \cup ColumnCells(2), MaxCols) :
            \A c \in 1..Len(r) : r[c] \in ColumnCells(c)}

\* A header row followed by up to MaxRows data rows, and the table of no row.
Tables == {<<>>} \cup {<<h>> \o d : h \in Headers, d \in SeqUpTo(Rows, MaxRows)}

\* The sets of row indices that can be the header object itself: index 1, and
\* any later row a caller built from the same list.
Aliasings(t) ==
    {{1} \cup s : s \in SUBSET {i \in 2..Len(t) : t[i] = t[1]}}

\* The dict with the keys ks (in that order) and the values vs.
MkDict(ks, vs) == [i \in 1..Len(ks) |-> <<ks[i], vs[i]>>]

\* Two field names in the other order: a record that does not follow the header.
SwappedNames == <<FieldNames[2], FieldNames[1]>>

Records ==
    {MkDict(SubSeq(FieldNames, 1, Len(r)), r) : r \in Rows}
    \cup {MkDict(SwappedNames, <<r[2], r[1]>>) : r \in {x \in Rows : Len(x) = 2}}

RecordSets == SeqUpTo(Records, MaxRows)

---------------------------------------------------------------------------
VARIABLES
    c_pc,       \* converter run: "table", "records", "done" or "failed"
    c_origin,   \* what the run started from: "table" or "records"
    c_table,    \* the table handed to to_dict
    c_same,     \* the indices of c_table that are the header object
    c_records,  \* the records handed to to_list
    c_header,   \* the header flag handed to to_list
    c_last,     \* the converter called last: "none", "to_dict" or "to_list"
    c_result    \* the outcome of the last converter call

cvars ==
    <<c_pc, c_origin, c_table, c_same, c_records, c_header, c_last, c_result>>

InitConvIdle ==
    /\ c_pc = "idle" /\ c_origin = "none" /\ c_table = <<>> /\ c_same = {1}
    /\ c_records = <<>> /\ c_header = TRUE /\ c_last = "none"
    /\ c_result = Ok(<<>>)

---------------------------------------------------------------------------
\* The client: Sheets

VARIABLES
    env_sheet_id,   \* os.environ's SHEET_ID when the client was built (None: not set)
    arg_sheet_id,   \* the sheet_id argument the client was built with
    sheet_id,       \* self.sheet_id
    default_range,  \* self.default_range
    has_data,       \* whether the attribute self.data exists
    data,           \* self.data, the buffered table (<<>> while has_data is FALSE)
    call,           \* the last call: its method and its arguments
    exc,            \* the exception the last call raised, "" when it returned
    ret,            \* what the last call returned
    request,        \* the get / update the last call made on the remote store
    reply,          \* what the remote store answered to it
    after_empty_read \* history: the call before the last one was a read_data
                    \* whose result held no values

svars ==
    <<env_sheet_id, arg_sheet_id, sheet_id, default_range, has_data, data,
      call, exc, ret, request, reply, after_empty_read>>

vars == <<svars, cvars>>

ValueErrorRange == "ValueError: No data range provided"
ValueErrorData == "ValueError: No data provided"

\* get / update called with spreadsheetId=None: the call is refused before
\* any request is made.
MissingSheetId == "TypeError: Missing required parameter spreadsheetId"

\* The client itself, returned by the chaining methods.
Self == <<"self">>

NoRequest ==
    [kind |-> "none", spreadsheetId |-> None, range |-> None,
     valueInputOption |-> "", values |-> <<>>]
NoReply == [kind |-> "none", val |-> <<>>]

\* A constructor that prefers the argument: sheet_id or os.environ.get("SHEET_ID")
ResolveSheetId_ArgFirst(env, arg) == IF arg # None THEN arg ELSE env

\* self.sheet_id = os.environ.get("SHEET_ID", sheet_id)
ResolveSheetId(env, arg) == IF env # None THEN env ELSE arg

\* A _set_data_range that prefers the default: self.default_range or data_range
SetDataRange_DefaultFirst(data_range, default) ==
    LET _range == IF Truthy(default) THEN default ELSE data_range
    IN  IF ~Truthy(_range) THEN Raise("ValueError: No data range provided")
        ELSE Ok(_range)

\* Sheets._set_data_range(data_range)
SetDataRange(data_range, default) ==
    LET _range == IF Truthy(data_range) THEN data_range ELSE default
    IN  IF ~Truthy(_range) THEN Raise(ValueErrorRange) ELSE Ok(_range)

\* _data = data or self.data
DataOrBuffer(arg, hasData, buffer) ==
    IF TruthyArg(arg) THEN Ok(arg[2])
    ELSE IF hasData THEN Ok(buffer)
    ELSE Raise("AttributeError")

\* A default of one empty row: result.get("values", [[]])
ResultValues_EmptyRow(r) == IF r.kind = "values" THEN r.val ELSE <<<<>>>>

\* result.get("values", [])
ResultValues(r) == IF r.kind = "values" THEN r.val ELSE <<>>

\* What a call does: the exception or the value returned, the buffer after
\* it, and the exchange with the remote store.
Effect(e, r, h, d, req, rep) ==
    [exc |-> e, ret |-> r, has_data |-> h, data |-> d,
     request |-> req, reply |-> rep]

\* A call that raises e before it changes anything.
Fails(e, h, d, req, rep) == Effect(e, <<>>, h, d, req, rep)

\* Sheets.read_data(data_range)
ReadData(sid, default, hasData, buffer, data_range, auth_ok, rep) ==
    IF ~auth_ok
    THEN Fails("AuthenticationError", hasData, buffer, NoRequest, NoReply)
    ELSE LET r == SetDataRange(data_range, default)
             req == [kind |-> "GET", spreadsheetId |-> sid, range |-> r.val,
                     valueInputOption |-> "", values |-> <<>>]
         IN  IF r.exc # "" THEN Fails(r.exc, hasData, buffer, NoRequest, NoReply)
             ELSE IF sid = None
             THEN Fails(MissingSheetId, hasData, buffer, NoRequest, NoReply)
             ELSE IF rep.kind = "error"
             THEN Fails("RemoteOperationError", hasData, buffer, req, rep)
             ELSE Effect("", Self, TRUE, ResultValues(rep), req, rep)

\* A write_data that empties the buffer once the update is done.
WriteData_ConsumesBuffer(sid, default, hasData, buffer, arg, data_range, auth_ok, rep) ==
    LET _data == DataOrBuffer(arg, hasData, buffer)
    IN  IF _data.exc # ""
        THEN Fails(_data.exc, hasData, buffer, NoRequest, NoReply)
        ELSE IF ~auth_ok
        THEN Fails("AuthenticationError", hasData, buffer, NoRequest, NoReply)
        ELSE LET r == SetDataRange(data_range, default)
                 req == [kind |-> "UPDATE", spreadsheetId |-> sid,
                         range |-> r.val, valueInputOption |-> "RAW",
                         values |-> _data.val]
             IN  IF r.exc # ""
                 THEN Fails(r.exc, hasData, buffer, NoRequest, NoReply)
                 ELSE IF sid = None
                 THEN Fails(MissingSheetId, hasData, buffer, NoRequest, NoReply)
                 ELSE IF rep.kind = "error"
                 THEN Fails("RemoteOperationError", hasData, buffer, req, rep)
                 ELSE Effect("", rep.val, TRUE, <<>>, req, rep)

\* Sheets.write_data(data, data_range)
WriteData(sid, default, hasData, buffer, arg, data_range, auth_ok, rep) ==
    LET _data == DataOrBuffer(arg, hasData, buffer)
    IN  IF _data.exc # ""
        THEN Fails(_data.exc, hasData, buffer, NoRequest, NoReply)
        ELSE IF ~auth_ok
        THEN Fails("AuthenticationError", hasData, buffer, NoRequest, NoReply)
        ELSE LET r == SetDataRange(data_range, default)
                 req == [kind |-> "UPDATE", spreadsheetId |-> sid,
                         range |-> r.val, valueInputOption |-> "RAW",
                         values |-> _data.val]
             IN  IF r.exc # ""
                 THEN Fails(r.exc, hasData, buffer, NoRequest, NoReply)
                 ELSE IF sid = None
                 THEN Fails(MissingSheetId, hasData, buffer, NoRequest, NoReply)
                 ELSE IF rep.kind = "error"
                 THEN Fails("RemoteOperationError", hasData, buffer, req, rep)
                 ELSE Effect("", rep.val, hasData, buffer, req, rep)

\* Sheets.as_dict(data).  The rows of a table are objects of their own: only
\* row 0 is the header object.
AsDict(hasData, buffer, arg) ==
    LET _data == DataOrBuffer(arg, hasData, buffer)
    IN  IF _data.exc # ""
        THEN Fails(_data.exc, hasData, buffer, NoRequest, NoReply)
        ELSE IF TruthyList(_data.val)
        THEN Effect("", ToDict(_data.val, {1}).val, hasData, buffer,
                    NoRequest, NoReply)
        ELSE Fails(ValueErrorData, hasData, buffer, NoRequest, NoReply)

\* The conversion inside as_list, which reads the argument `data` and not
\* `_data`: None can be neither indexed nor iterated.
ConvertArg(arg, header) ==
    IF arg = NoList THEN Raise("TypeError") ELSE ToList(arg[2], header)

\* Sheets.as_list(data, header)
AsList(hasData, buffer, arg, header) ==
    LET _data == DataOrBuffer(arg, hasData, buffer)
    IN  IF _data.exc # ""
        THEN Fails(_data.exc, hasData, buffer, NoRequest, NoReply)
        ELSE IF TruthyList(_data.val)
        THEN LET t == ConvertArg(arg, header)
             IN  IF t.exc # ""
                 THEN Fails(t.exc, hasData, buffer, NoRequest, NoReply)
                 ELSE Effect("", Self, TRUE, t.val, NoRequest, NoReply)
        ELSE Fails(ValueErrorData, hasData, buffer, NoRequest, NoReply)

---------------------------------------------------------------------------
\* Inputs of the client

SheetIdEnvs == {None, StrV("env-sheet")}
SheetIdArgs == {None, StrV("arg-sheet")}
DefaultRanges == {None, StrV(""), StrV("employees")}
RangeArgs == {None, StrV(""), StrV("A1:B2")}

Table1 == <<<<FieldNames[1], FieldNames[2]>>, <<StrV("Fred"), IntV(31)>>>>
Table2 == <<<<FieldNames[1], FieldNames[2]>>, <<StrV("Fred")>>, <<StrV(""), IntV(0)>>>>
TableArgs == {NoList, List(<<>>), List(Table1), List(Table2)}

Records1 == <<MkDict(<<FieldNames[1], FieldNames[2]>>, <<StrV("Fred"), IntV(31)>>)>>
Records2 == <<MkDict(<<FieldNames[1]>>, <<StrV("Fred")>>),
              MkDict(<<FieldNames[1], FieldNames[2]>>, <<None, None>>)>>
RecordArgs == {NoList, List(<<>>), List(Records1), List(Records2)}

\* The provider's result of an update, opaque to the client.
Responses == {<<"response", "updatedRows=1">>, <<"response", "updatedRows=2">>}

\* What get(...).execute() can do once authenticated: fail, or return a
\* result with or without values.
GetReplies(auth_ok) ==
    IF ~auth_ok THEN {NoReply}
    ELSE {[kind |-> "error", val |-> <<>>],
          [kind |-> "absent", val |-> <<>>],
          [kind |-> "values", val |-> Table1],
          [kind |-> "values", val |-> Table2]}

\* What update(...).execute() can do once authenticated: fail, or return the
\* provider's result.
UpdateReplies(auth_ok) ==
    IF ~auth_ok THEN {NoReply}
    ELSE {[kind |-> "error", val |-> <<>>]}
         \cup {[kind |-> "response", val |-> v] : v \in Responses}

---------------------------------------------------------------------------
\* The client's state machine

\* Sheets.__init__ with SHEET_ID = env in the environment: the state after
\* construction.  self.data is not set.
Built(env, sheet_id_arg, default_range_arg) ==
    /\ env_sheet_id = env
    /\ arg_sheet_id = sheet_id_arg
    /\ sheet_id = ResolveSheetId(env, sheet_id_arg)
    /\ default_range = default_range_arg
    /\ has_data = FALSE
    /\ data = <<>>
    /\ call = [op |-> "__init__", data |-> NoList, range |-> None, header |-> TRUE]
    /\ exc = ""
    /\ ret = <<>>
    /\ request = NoRequest
    /\ reply = NoReply
    /\ after_empty_read = FALSE

Init ==
    /\ \E env \in SheetIdEnvs, sid \in SheetIdArgs, rng \in DefaultRanges :
          Built(env, sid, rng)
    /\ InitConvIdle

\* The effect e of the call just made.
Apply(e) ==
    /\ exc' = e.exc
    /\ ret' = e.ret
    /\ has_data' = e.has_data
    /\ data' = e.data
    /\ request' = e.request
    /\ reply' = e.reply
    /\ after_empty_read' = (call.op = "read_data" /\ reply.kind = "absent")
    /\ UNCHANGED <<env_sheet_id, arg_sheet_id, sheet_id, default_range>>
    /\ UNCHANGED cvars

DoSetDataRange ==
    \E data_range \in RangeArgs :
        /\ call' = [op |-> "_set_data_range", data |-> NoList,
                    range |-> data_range, header |-> TRUE]
        /\ LET r == SetDataRange(data_range, default_range)
           IN  Apply(Effect(r.exc, r.val, has_data, data, NoRequest, NoReply))

DoReadData ==
    \E data_range \in RangeArgs, auth_ok \in BOOLEAN :
      \E rep \in GetReplies(auth_ok) :
        /\ call' = [op |-> "read_data", data |-> NoList, range |-> data_range,
                    header |-> TRUE]
        /\ Apply(ReadData(sheet_id, default_range, has_data, data,
                          data_range, auth_ok, rep))

DoWriteData ==
    \E arg \in TableArgs, data_range \in RangeArgs, auth_ok \in BOOLEAN :
      \E rep \in UpdateReplies(auth_ok) :
        /\ call' = [op |-> "write_data", data |-> arg, range |-> data_range,
                    header |-> TRUE]
        /\ Apply(WriteData(sheet_id, default_range, has_data, data,
                           arg, data_range, auth_ok, rep))

DoAsDict ==
    \E arg \in TableArgs :
        /\ call' = [op |-> "as_dict", data |-> arg, range |-> None,
                    header |-> TRUE]
        /\ Apply(AsDict(has_data, data, arg))

DoAsList ==
    \E arg \in RecordArgs, header \in BOOLEAN :
        /\ call' = [op |-> "as_list", data |-> arg, range |-> None,
                    header |-> header]
        /\ Apply(AsList(has_data, data, arg, header))

\* The static Sheets.to_list, called on a list of records.
DoToList ==
    \E arg \in RecordArgs \ {NoList}, header \in BOOLEAN :
        /\ call' = [op |-> "to_list", data |-> arg, range |-> None,
                    header |-> header]
        /\ LET t == ToList(arg[2], header)
           IN  Apply(Effect(t.exc, t.val, has_data, data, NoRequest, NoReply))

Next ==
    \/ DoSetDataRange
    \/ DoReadData
    \/ DoWriteData
    \/ DoAsDict
    \/ DoAsList
    \/ DoToList

Spec == Init /\ [][Next]_vars

---------------------------------------------------------------------------
\* The converters on their own, on a client built as Sheets()

InitConv ==
    /\ Built(None, None, None)
    /\ c_header = TRUE /\ c_last = "none" /\ c_result = Ok(<<>>)
    /\ \/ /\ c_pc = "table" /\ c_origin = "table"
          /\ c_table \in Tables
          /\ c_same \in Aliasings(c_table)
          /\ c_records = <<>>
       \/ /\ c_pc = "records" /\ c_origin = "records"
          /\ c_table = <<>> /\ c_same = {1}
          /\ c_records \in RecordSets

\* records = Sheets.to_dict(table)
CallToDict ==
    /\ c_pc = "table"
    /\ c_last' = "to_dict"
    /\ c_result' = ToDict(c_table, c_same)
    /\ c_pc' = IF c_result'.exc = "" THEN "records" ELSE "failed"
    /\ c_records' = c_result'.val
    /\ UNCHANGED <<c_origin, c_table, c_same, c_header>>
    /\ UNCHANGED svars

\* table = Sheets.to_list(records, header)
CallToList ==
    /\ c_pc = "records"
    /\ c_last' = "to_list"
    /\ \E header \in BOOLEAN :
          /\ c_header' = header
          /\ c_result' = ToList(c_records, header)
    /\ c_pc' = IF c_result'.exc = "" THEN "done" ELSE "failed"
    /\ UNCHANGED <<c_origin, c_table, c_same, c_records>>
    /\ UNCHANGED svars

NextConv == CallToDict \/ CallToList

SpecConv == InitConv /\ [][NextConv]_vars

---------------------------------------------------------------------------
\* Properties of the converters (checked under SpecConv)

\* A table as the data model describes it: a header row, and data rows no
\* longer than the header that are objects of their own.
WellFormed(t, same) ==
    /\ Len(t) >= 1
    /\ same = {1}
    /\ \A i \in 2..Len(t) : Len(t[i]) <= Len(t[1])

\* falsy -> null
Normalized(v) == IF v \in {StrV(""), IntV(0), None} THEN None ELSE v

\* The items <<field, value>> of a record, whatever their order.
Items(d) == {d[i] : i \in 1..Len(d)}

\* The items the record of a row is to have: one per header entry, null where
\* the row has no cell or a falsy one.
ExpectedItems(h, row) ==
    {<<h[j], IF j <= Len(row) THEN Normalized(row[j]) ELSE None>> : j \in 1..Len(h)}

\* C1: to_dict of a well-formed table with n data rows yields n records in
\* row order, each with exactly the header's fields, a field without a cell
\* being null.
C1_ToDictRecords ==
    (c_last = "to_dict" /\ WellFormed(c_table, c_same)) =>
        /\ c_result.exc = ""
        /\ Len(c_records) = Len(c_table) - 1
        /\ \A i \in 1..Len(c_records) :
              /\ {c_records[i][k][1] : k \in 1..Len(c_records[i])}
                    = {c_table[1][j] : j \in 1..Len(c_table[1])}
              /\ Items(c_records[i]) = ExpectedItems(c_table[1], c_table[i + 1])

\* The table with the falsy cells of its data rows replaced by null.
NullNormalized(t) ==
    [i \in 1..Len(t) |->
        IF i = 1 THEN t[1] ELSE [j \in 1..Len(t[i]) |-> Normalized(t[i][j])]]

\* C2: to_list(to_dict(T), header=True) returns T with its falsy cells null,
\* for every well-formed T with n >= 0 data rows.
C2_RoundTrip ==
    (c_origin = "table" /\ c_last = "to_list" /\ c_header
     /\ WellFormed(c_table, c_same)) =>
        /\ c_result.exc = ""
        /\ c_result.val = NullNormalized(c_table)

\* Records that all list the same fields in the same order.
SharedKeyOrder(rs) ==
    \A i \in 1..Len(rs) :
        /\ Len(rs[i]) = Len(rs[1])
        /\ \A j \in 1..Len(rs[i]) : rs[i][j][1] = rs[1][j][1]

\* C3: to_list of a non-empty record set with one key order returns, with
\* header, the first record's keys followed by every record's values in
\* input order (len + 1 rows), and without header those len value rows alone.
C3_ToListRows ==
    (c_last = "to_list" /\ Len(c_records) >= 1 /\ SharedKeyOrder(c_records)) =>
        /\ c_result.exc = ""
        /\ LET out == c_result.val
               off == IF c_header THEN 1 ELSE 0
           IN  /\ Len(out) = Len(c_records) + off
               /\ c_header =>
                     /\ Len(out[1]) = Len(c_records[1])
                     /\ \A j \in 1..Len(out[1]) : out[1][j] = c_records[1][j][1]
               /\ \A i \in 1..Len(c_records) :
                     /\ Len(out[i + off]) = Len(c_records[i])
                     /\ \A j \in 1..Len(c_records[i]) :
                           out[i + off][j] = c_records[i][j][2]

\* Two different records of two fields each, converted with the header row.
C3_Witness ==
    /\ c_last = "to_list" /\ c_origin = "records" /\ c_header
    /\ Len(c_records) = 2 /\ SharedKeyOrder(c_records)
    /\ Len(c_records[1]) = 2
    /\ c_records[1] # c_records[2]
    /\ c_result.exc = "" /\ Len(c_result.val) = 3

---------------------------------------------------------------------------
\* Properties of the client (checked under Spec)

\* A range that is given: neither None nor the empty string.
Present(x) == x # None /\ x # StrV("")

\* C4: _set_data_range returns the explicit range when one is given, else the
\* default when one is set, else raises ValueError "No data range provided";
\* it changes nothing of the client.
C4_SetDataRange ==
    [][call'.op = "_set_data_range" =>
          /\ Present(call'.range) => (exc' = "" /\ ret' = call'.range)
          /\ (~Present(call'.range) /\ Present(default_range)) =>
                (exc' = "" /\ ret' = default_range)
          /\ (~Present(call'.range) /\ ~Present(default_range)) =>
                exc' = "ValueError: No data range provided"
          /\ UNCHANGED <<default_range, sheet_id, has_data, data>>]_vars

\* An explicit range wins over a different default.
C4_Witness ==
    /\ call.op = "_set_data_range"
    /\ Present(call.range) /\ Present(default_range)
    /\ call.range # default_range
    /\ exc = "" /\ ret = call.range

\* C5: write_data() with no table on a client whose buffer is empty (never
\* set, or set to the empty table) raises ValueError "No data provided" and
\* makes no update.
C5_WriteEmptyBufferFails ==
    [][(/\ call'.op = "write_data"
        /\ call'.data = NoList
        /\ (~has_data \/ data = <<>>)) =>
          (exc' = "ValueError: No data provided" /\ request'.kind # "UPDATE")]_vars

C8_EmptyRecordSetFails ==
    [][(call'.op \in {"to_list", "as_list"} /\ call'.data = List(<<>>)) =>
          /\ exc' = "ValueError: No data provided"
          /\ UNCHANGED <<has_data, data>>]_vars

\* C9: the buffer changes only in a read_data or an as_list that succeeds, and
\* then holds that call's result; every other call, and every call that
\* fails, leaves it as it was.
C9_BufferChanges ==
    [][/\ (has_data' # has_data \/ data' # data) =>
             (call'.op \in {"read_data", "as_list"} /\ exc' = "")
       /\ (call'.op = "read_data" /\ exc' = "") =>
             /\ has_data' /\ ret' = <<"self">>
             /\ data' = IF reply'.kind = "values" THEN reply'.val ELSE <<>>
       /\ (call'.op = "as_list" /\ exc' = "") =>
             /\ has_data' /\ ret' = <<"self">>
             /\ LET rs == call'.data[2]
                    off == IF call'.header THEN 1 ELSE 0
                IN  /\ Len(data') = Len(rs) + off
                    /\ \A i \in 1..Len(rs) :
                          data'[i + off] = [j \in 1..Len(rs[i]) |-> rs[i][j][2]]
      ]_vars

\* A write that went through on a client whose buffer a read had filled.
C9_Witness ==
    /\ call.op = "write_data" /\ call.data = NoList /\ exc = ""
    /\ request.kind = "UPDATE"
    /\ has_data /\ data = request.values /\ Len(data) >= 2

\* C10: the values of write_data's update are the table argument whenever one
\* is supplied (an empty one too), else the buffer; the update is RAW, goes
\* to the resolved range, and its result is returned as it is.
C10_UpdateValues ==
    (call.op = "write_data" /\ request.kind = "UPDATE") =>
        /\ request.values = IF call.data # NoList THEN call.data[2] ELSE data
        /\ request.valueInputOption = "RAW"
        /\ request.range = IF Present(call.range) THEN call.range ELSE default_range
        /\ exc = "" => ret = reply.val

=============================================================================
